---- MODULE Spec2Model ----
(***************************************************************************)
(* A model of src/chunk_processor.py: ChunkProcessor.__init__ and          *)
(* _setup_logger, ChunkProcessorCsv.read_chunks and                        *)
(* ChunkProcessorCsv.process.                                              *)
(*                                                                         *)
(* A CSV file is a header line followed by data rows.  A data row is a     *)
(* record [n, v]: n is its line number in the input file (its identity)    *)
(* and v its single cell, which is a value, a missing value, or malformed  *)
(* text the parser rejects.  An output file is a sequence of lines.  The   *)
(* log file is a sequence of slots, one log record per slot.               *)
(***************************************************************************)
EXTENDS Integers, Sequences, FiniteSets, TLC

\* ------------------------------------------------------------------ bounds
MaxRows == 3          \* data rows of the input file: 0..MaxRows
MaxChunkSize == 2     \* chunk_size: 1..MaxChunkSize
MaxFaults == 1        \* I/O or memory faults the environment injects
MaxRuns == 2          \* process() calls (SpecRuns)
MaxProcessors == 2    \* processor objects built for the input file (SpecRuns)

\* ------------------------------------------------------------- the values
NULL == "null"        \* a missing cell (NaN)
BAD == "bad"          \* a malformed row: pd.read_csv raises ParserError on it
Cells == {"x", NULL, BAD}

HEADER == [kind |-> "header", n |-> 0, text |-> "col"]

\* The rows of a file whose cells are cs, numbered by their line.
FileRows(cs) == [i \in 1..Len(cs) |-> [n |-> i, v |-> cs[i]]]

InputFiles == UNION {{FileRows(cs) : cs \in [1..k -> Cells]} : k \in 0..MaxRows}

Min(a, b) == IF a < b THEN a ELSE b
Max(a, b) == IF a > b THEN a ELSE b

\* ------------------------------------------------- the transform functions
\* The callables a caller may configure; each maps a batch to a batch or
\* raises.
Funcs == {"fillna", "dropna", "upper", "raise", "raise_on_null"}

HasNull(b) == \E i \in 1..Len(b) : b[i].v = NULL
IsNotNull(r) == r.v # NULL

ApplyFunc(f, b) ==
    CASE f = "fillna" ->
           [ok |-> TRUE,
            rows |-> [i \in 1..Len(b) |->
                        IF b[i].v = NULL THEN [b[i] EXCEPT !.v = "filled"] ELSE b[i]]]
      [] f = "dropna" -> [ok |-> TRUE, rows |-> SelectSeq(b, IsNotNull)]
      [] f = "upper" ->
           [ok |-> TRUE,
            rows |-> [i \in 1..Len(b) |->
                        IF b[i].v = "x" THEN [b[i] EXCEPT !.v = "X"] ELSE b[i]]]
      [] f = "raise_on_null" -> [ok |-> ~HasNull(b), rows |-> IF HasNull(b) THEN <<>> ELSE b]
      [] OTHER -> [ok |-> FALSE, rows |-> <<>>]

\* __init__, lines 20-25: None, a single callable or a list.
ProcessingFuncsArgs ==
    {[kind |-> "none", f |-> "", fs |-> <<>>],
     [kind |-> "callable", f |-> "dropna", fs |-> <<>>],
     [kind |-> "list", f |-> "", fs |-> <<>>],
     [kind |-> "list", f |-> "", fs |-> <<"raise">>],
     [kind |-> "list", f |-> "", fs |-> <<"raise_on_null">>],
     [kind |-> "list", f |-> "", fs |-> <<"fillna", "dropna">>],
     [kind |-> "list", f |-> "", fs |-> <<"dropna", "upper">>],
     [kind |-> "list", f |-> "", fs |-> <<"raise_on_null", "fillna">>],
     [kind |-> "list", f |-> "", fs |-> <<"fillna", "raise_on_null">>]}

NormalizeFuncs(arg) ==
    IF arg.kind = "none" THEN <<>>
    ELSE IF arg.kind = "callable" THEN <<arg.f>>
    ELSE arg.fs

\* Mutant: the loop returns after the first function.
apply_first_func_only(funcs, chunk) ==
    IF funcs = <<>> THEN [ok |-> TRUE, rows |-> chunk]
    ELSE ApplyFunc(Head(funcs), chunk)

\* apply_processing_funcs: each function's output is the next one's input.
RECURSIVE apply_processing_funcs(_, _)
apply_processing_funcs(funcs, chunk) ==
    IF funcs = <<>> THEN [ok |-> TRUE, rows |-> chunk]
    ELSE LET r == ApplyFunc(Head(funcs), chunk)
         IN  IF r.ok THEN apply_processing_funcs(Tail(funcs), r.rows) ELSE r

\* ------------------------------------------------------------------- to_csv
\* A data row as a line of text: a missing cell is written as the empty field.
Line(r) == [kind |-> "data", n |-> r.n, text |-> IF r.v = NULL THEN "" ELSE r.v]

\* chunk.to_csv(f_out, index=False, header=h): the lines it writes, in order.
to_csv(rows, h) ==
    (IF h THEN <<HEADER>> ELSE <<>>) \o [i \in 1..Len(rows) |-> Line(rows[i])]

num_nulls_of(rows) == Cardinality({i \in 1..Len(rows) : rows[i].v = NULL})

\* ------------------------------------------------------------------ the log
Entry(ev, a, b, c) == [ev |-> ev, n |-> a, rows |-> b, nulls |-> c]
HOLE == Entry("hole", 0, 0, 0)

\* logger.info / logger.error for the records es, in order: every FileHandler
\* attached to the logger writes each record at its own stream position (the
\* handlers were opened with mode 'w', not 'a', so each has its own offset)
\* and flushes.  ps[h] is the position of handler h; handlers write in the
\* order they were added.  Slot i ends up holding the record written to it
\* last; a slot between the old end of the file and a later write is a hole.
Writers(ps, es, i) == {h \in 1..Len(ps) : i - ps[h] \in 1..Len(es)}

SetMax(S) == CHOOSE x \in S : \A y \in S : y <= x

Emit(file, ps, es) ==
    IF es = <<>> THEN file
    ELSE LET end == SetMax({Len(file)} \cup {ps[h] + Len(es) : h \in 1..Len(ps)})
         IN  [i \in 1..end |->
                IF Writers(ps, es, i) # {}
                THEN es[SetMax({i - ps[h] : h \in Writers(ps, es, i)})]
                ELSE IF i <= Len(file) THEN file[i] ELSE HOLE]

Advance(ps, k) == [i \in 1..Len(ps) |-> ps[i] + k]

\* ---------------------------------------------------------------- the state
VARIABLES
    input_exists,      \* the input file can be opened
    input,             \* its data rows (after the header line)
    output_writable,   \* the output path can be opened for writing
    chunk_size,        \* self.chunk_size
    processing_funcs_arg,  \* the processing_funcs argument of __init__
    processing_funcs,  \* self.processing_funcs, normalised by __init__
    handlers,          \* stream position of each FileHandler of the logger
    log_file,          \* the slots of {stem}_processing.log
    emitted,           \* history: the records logged since this run started
    pc,                \* where process() is: idle, loop, chunk, done, raised
    output,            \* the lines of the output file
    f_out_open,        \* the output stream is open
    header_written,
    chunk_number,
    total_rows,
    total_nulls,
    reader,            \* the read_chunks generator: started, pos, first, i
    chunk,             \* the batch the loop body holds
    yielded,           \* history: the batches the reader yielded in this run
    attempts,          \* history: the batches the loop body handled in this run
    faults,            \* environment faults injected so far
    runs,              \* process() calls so far
    prev               \* history: how the previous run ended

vars == <<input_exists, input, output_writable, chunk_size, processing_funcs_arg,
          processing_funcs, handlers, log_file, emitted,
          pc, output, f_out_open, header_written, chunk_number, total_rows,
          total_nulls, reader, chunk, yielded, attempts, faults, runs, prev>>

config == <<input_exists, input, output_writable, chunk_size, processing_funcs_arg,
            processing_funcs>>
stats == <<chunk_number, total_rows, total_nulls>>

NoPrev == [pc |-> "none", output |-> <<>>, faults |-> 0, log |-> 0]
NewReader == [started |-> FALSE, pos |-> 0, first |-> TRUE, i |-> 0]

\* logger.info(...) / logger.error(...) for the records es, in order.
Write(es) ==
    /\ log_file' = Emit(log_file, handlers, es)
    /\ handlers' = Advance(handlers, Len(es))

Log(es) ==
    /\ Write(es)
    /\ emitted' = emitted \o es

\* An output file an earlier program run left at the output path.
OldOutput == <<HEADER, [kind |-> "data", n |-> 9, text |-> "old"]>>

\* The state after ChunkProcessorCsv(input_file, chunk_size=..., processing_funcs=...):
\* one processor object, whose FileHandler has created an empty log file.
Init ==
    /\ \/ input_exists = TRUE /\ input \in InputFiles
       \/ input_exists = FALSE /\ input = <<>>
    /\ output_writable \in BOOLEAN
    /\ chunk_size \in 1..MaxChunkSize
    /\ processing_funcs_arg \in ProcessingFuncsArgs
    /\ processing_funcs = NormalizeFuncs(processing_funcs_arg)
    /\ handlers = <<0>>
    /\ log_file = <<>>
    /\ emitted = <<>>
    /\ pc = "idle"
    /\ output \in {<<>>, OldOutput}
    /\ f_out_open = FALSE
    /\ header_written = FALSE
    /\ chunk_number = 0
    /\ total_rows = 0
    /\ total_nulls = 0
    /\ reader = NewReader
    /\ chunk = <<>>
    /\ yielded = <<>>
    /\ attempts = <<>>
    /\ faults = 0
    /\ runs = 0
    /\ prev = NoPrev

\* Mutant: the output is opened with mode 'a'.
OpenOutput_Append(old) == old

\* open(self.output_file, 'w', ...): the file is truncated.
OpenOutput(old) == <<>>

\* process(), lines 101-109: up to the first request for a batch.
Enter ==
    /\ Write(<<Entry("iniciando", 0, 0, 0)>>)
    /\ emitted' = <<Entry("iniciando", 0, 0, 0)>>
    /\ chunk_number' = 0
    /\ total_rows' = 0
    /\ total_nulls' = 0
    /\ output' = OpenOutput(output)
    /\ f_out_open' = TRUE
    /\ header_written' = FALSE
    /\ reader' = NewReader
    /\ chunk' = <<>>
    /\ yielded' = <<>>
    /\ attempts' = <<>>
    /\ runs' = runs + 1
    /\ prev' = [pc |-> pc, output |-> output, faults |-> faults, log |-> Len(log_file)]
    /\ pc' = "loop"
    /\ UNCHANGED <<config, faults>>

\* open() at line 108 raises: the start record is logged, the file untouched.
EnterFail ==
    /\ Write(<<Entry("iniciando", 0, 0, 0)>>)
    /\ emitted' = <<Entry("iniciando", 0, 0, 0)>>
    /\ runs' = runs + 1
    /\ prev' = [pc |-> pc, output |-> output, faults |-> faults, log |-> Len(log_file)]
    /\ pc' = "raised"
    /\ UNCHANGED <<config, output, f_out_open, header_written, stats, reader,
                   chunk, yielded, attempts, faults>>

Start ==
    /\ pc = "idle"
    /\ output_writable
    /\ Enter

StartFail ==
    /\ pc = "idle"
    /\ ~output_writable
    /\ EnterFail

\* -------------------------------------------------------------- read_chunks
\* Mutant: the batch's rows come out in reverse order.
NextBatch_Reversed(rows, pos, size) ==
    LET b == SubSeq(rows, pos + 1, Min(pos + size, Len(rows)))
    IN  [i \in 1..Len(b) |-> b[Len(b) + 1 - i]]

\* pd.read_csv(..., chunksize=size): the rows of the next batch.
NextBatch(rows, pos, size) == SubSeq(rows, pos + 1, Min(pos + size, Len(rows)))

\* Mutant: a file with no data rows gives no batch at all.
ReaderHasNext_NoEmptyFrame == reader.pos < Len(input)

\* The parser has another batch: rows are left, or nothing was read yet (the
\* first read of a file with no data rows gives an empty frame, not the end).
ReaderHasNext == reader.pos < Len(input) \/ reader.first

Malformed(b) == \E i \in 1..Len(b) : b[i].v = BAD

\* What read_chunks logs before its first batch (lines 83 and 91).
ReaderPreamble ==
    IF reader.started THEN <<>>
    ELSE <<Entry("encoding", 0, 0, 0), Entry("lendo", 0, 0, 0)>>

\* The for statement asks the generator for a batch and gets one.
ReadChunk ==
    /\ pc = "loop"
    /\ input_exists
    /\ ReaderHasNext
    /\ LET b == NextBatch(input, reader.pos, chunk_size)
       IN  /\ ~Malformed(b)
           /\ Log(ReaderPreamble \o <<Entry("lido", reader.i + 1, Len(b), 0)>>)
           /\ reader' = [started |-> TRUE, pos |-> reader.pos + Len(b),
                         first |-> FALSE, i |-> reader.i + 1]
           /\ chunk' = b
           /\ yielded' = Append(yielded, b)
    /\ pc' = "chunk"
    /\ UNCHANGED <<config, output, f_out_open, header_written, stats, attempts,
                   faults, runs, prev>>

\* The generator raises: the input cannot be opened (line 80) or the parser
\* rejects a row of the next batch (line 93).  Nothing in process() catches
\* it; the with statement closes the output.
ReadFail ==
    /\ pc = "loop"
    /\ \/ ~input_exists
       \/ /\ input_exists
          /\ ReaderHasNext
          /\ Malformed(NextBatch(input, reader.pos, chunk_size))
    /\ Log(IF input_exists THEN ReaderPreamble ELSE <<>>)
    /\ reader' = [reader EXCEPT !.started = input_exists]
    /\ f_out_open' = FALSE
    /\ pc' = "raised"
    /\ UNCHANGED <<config, output, header_written, stats, chunk, yielded,
                   attempts, faults, runs, prev>>


\* ------------------------------------------------------------ the loop body
\* Line 114: the batch after the configured functions.
Transformed == apply_processing_funcs(processing_funcs, chunk)

\* Line 116: header=not header_written.
HeaderArg(hw) == ~hw

\* Mutant: the total is assigned (=) where it should be added to (+=).
AddRows_Assign(total, rows) == Len(rows)

\* Mutant: the except clause re-raises.
AfterExcept_Reraise == "raised"

\* Lines 119-122: the batch's counts are added to the totals.
AddRows(total, rows) == total + Len(rows)
AddNulls(total, rows) == total + num_nulls_of(rows)

\* Lines 127-128: the except clause logs and the loop goes on.
AfterExcept == "loop"

Attempt(b, out, ok, written) == [batch |-> b, out |-> out, ok |-> ok, written |-> written]

\* Mutant: the batch's lines replace the output file's content.
ChunkOk_Overwrite ==
    /\ pc = "chunk"
    /\ Transformed.ok
    /\ LET rows == Transformed.rows
           lines == to_csv(rows, HeaderArg(header_written))
       IN  /\ chunk_number' = chunk_number + 1
           /\ chunk' = rows
           /\ output' = lines
           /\ header_written' = TRUE
           /\ total_rows' = AddRows(total_rows, rows)
           /\ total_nulls' = AddNulls(total_nulls, rows)
           /\ Log(<<Entry("processado", chunk_number + 1, Len(rows), num_nulls_of(rows))>>)
           /\ attempts' = Append(attempts, Attempt(chunk, rows, TRUE, lines))
    /\ pc' = "loop"
    /\ UNCHANGED <<config, f_out_open, reader, yielded, faults, runs, prev>>

\* Lines 111-126 with no exception: transformed, written, counted, logged.
ChunkOk ==
    /\ pc = "chunk"
    /\ Transformed.ok
    /\ LET rows == Transformed.rows
           lines == to_csv(rows, HeaderArg(header_written))
       IN  /\ chunk_number' = chunk_number + 1
           /\ chunk' = rows
           /\ output' = output \o lines
           /\ header_written' = TRUE
           /\ total_rows' = AddRows(total_rows, rows)
           /\ total_nulls' = AddNulls(total_nulls, rows)
           /\ Log(<<Entry("processado", chunk_number + 1, Len(rows), num_nulls_of(rows))>>)
           /\ attempts' = Append(attempts, Attempt(chunk, rows, TRUE, lines))
    /\ pc' = "loop"
    /\ UNCHANGED <<config, f_out_open, reader, yielded, faults, runs, prev>>

\* A configured function raises at line 114: nothing is written.
ChunkTransformFail ==
    /\ pc = "chunk"
    /\ ~Transformed.ok
    /\ chunk_number' = chunk_number + 1
    /\ Log(<<Entry("erro", chunk_number + 1, 0, 0)>>)
    /\ attempts' = Append(attempts, Attempt(chunk, <<>>, FALSE, <<>>))
    /\ pc' = AfterExcept
    /\ UNCHANGED <<config, output, f_out_open, header_written, total_rows,
                   total_nulls, reader, chunk, yielded, faults, runs, prev>>

\* to_csv raises at line 116 (the disk is full, a cell cannot be formatted or
\* encoded) after it has written the first k of its lines to the stream.
ChunkWriteFault ==
    /\ pc = "chunk"
    /\ Transformed.ok
    /\ faults < MaxFaults
    /\ LET rows == Transformed.rows
           lines == to_csv(rows, HeaderArg(header_written))
       IN  \E k \in 0..Len(lines) :
             /\ chunk_number' = chunk_number + 1
             /\ chunk' = rows
             /\ output' = output \o SubSeq(lines, 1, k)
             /\ Log(<<Entry("erro", chunk_number + 1, 0, 0)>>)
             /\ attempts' = Append(attempts, Attempt(chunk, rows, FALSE, SubSeq(lines, 1, k)))
    /\ faults' = faults + 1
    /\ pc' = AfterExcept
    /\ UNCHANGED <<config, f_out_open, header_written, total_rows, total_nulls,
                   reader, yielded, runs, prev>>

\* to_csv returns and line 120 raises (MemoryError building the null mask):
\* the batch is in the file, the totals do not have it.
ChunkStatsFault ==
    /\ pc = "chunk"
    /\ Transformed.ok
    /\ faults < MaxFaults
    /\ LET rows == Transformed.rows
           lines == to_csv(rows, HeaderArg(header_written))
       IN  /\ chunk_number' = chunk_number + 1
           /\ chunk' = rows
           /\ output' = output \o lines
           /\ header_written' = TRUE
           /\ Log(<<Entry("erro", chunk_number + 1, 0, 0)>>)
           /\ attempts' = Append(attempts, Attempt(chunk, rows, FALSE, lines))
    /\ faults' = faults + 1
    /\ pc' = AfterExcept
    /\ UNCHANGED <<config, f_out_open, total_rows, total_nulls, reader, yielded,
                   runs, prev>>

\* Lines 130-135: the reader is exhausted, the with statement closes the
\* output, the summary is logged.
Summary ==
    <<Entry("concluido", 0, 0, 0),
      Entry("total_chunks", chunk_number, 0, 0),
      Entry("total_linhas", 0, total_rows, 0),
      Entry("total_nulos", 0, 0, total_nulls),
      Entry("tempo", 0, 0, 0)>>

Finish ==
    /\ pc = "loop"
    /\ input_exists
    /\ ~ReaderHasNext
    /\ f_out_open' = FALSE
    /\ Log(Summary)
    /\ pc' = "done"
    /\ UNCHANGED <<config, output, header_written, stats, reader, chunk, yielded,
                   attempts, faults, runs, prev>>

RunStep ==
    \/ ReadChunk
    \/ ReadFail
    \/ ChunkOk
    \/ ChunkTransformFail
    \/ ChunkWriteFault
    \/ ChunkStatsFault
    \/ Finish

Next ==
    \/ Start
    \/ StartFail
    \/ RunStep

\* One processor object, one call of process().
Spec == Init /\ [][Next]_vars

\* process() is sequential code: a run that has started keeps taking steps.
FairSpec == Spec /\ WF_vars(RunStep)


\* ------------------------------------------------ more objects, more runs
\* __init__ and _setup_logger for another processor object on the same input
\* file with the same arguments: logging.getLogger returns the logger the
\* earlier objects use, one more FileHandler is added to it, and opening that
\* handler with mode 'w' truncates the log file.
Construct ==
    /\ pc \in {"idle", "done", "raised"}
    /\ Len(handlers) < MaxProcessors
    /\ handlers' = Append(handlers, 0)
    /\ log_file' = <<>>
    /\ UNCHANGED <<config, emitted, pc, output, f_out_open, header_written, stats, reader,
                   chunk, yielded, attempts, faults, runs, prev>>

\* process() is called again after an earlier call has returned or raised.
Restart ==
    /\ pc \in {"done", "raised"}
    /\ runs < MaxRuns
    /\ output_writable
    /\ Enter

RestartFail ==
    /\ pc \in {"done", "raised"}
    /\ runs < MaxRuns
    /\ ~output_writable
    /\ EnterFail

NextRuns ==
    \/ Start
    \/ StartFail
    \/ ReadChunk
    \/ ReadFail
    \/ ChunkOk
    \/ ChunkTransformFail
    \/ Finish
    \/ Construct
    \/ Restart
    \/ RestartFail

\* Any number of processor objects and of process() calls, within the bounds,
\* in an environment that injects no fault: a batch fails only when a
\* configured function raises on it.
SpecRuns == Init /\ [][NextRuns]_vars

\* ======================================================== the properties
IsData(l) == l.kind = "data"
DataLines(f) == SelectSeq(f, IsData)
HeaderCount(f) == Cardinality({i \in 1..Len(f) : f[i].kind = "header"})
LogCount(ev) == Cardinality({i \in 1..Len(log_file) : log_file[i].ev = ev})
Ceil(a, b) == (a + b - 1) \div b

RECURSIVE OkRows(_)
OkRows(as) ==
    IF as = <<>> THEN 0
    ELSE (IF Head(as).ok THEN Len(Head(as).out) ELSE 0) + OkRows(Tail(as))

RECURSIVE OkNulls(_)
OkNulls(as) ==
    IF as = <<>> THEN 0
    ELSE (IF Head(as).ok THEN num_nulls_of(Head(as).out) ELSE 0) + OkNulls(Tail(as))

RECURSIVE OkLines(_)
OkLines(as) ==
    IF as = <<>> THEN <<>>
    ELSE (IF Head(as).ok THEN [i \in 1..Len(Head(as).out) |-> Line(Head(as).out[i])]
          ELSE <<>>) \o OkLines(Tail(as))

RECURSIVE Flatten(_)
Flatten(bs) == IF bs = <<>> THEN <<>> ELSE Head(bs) \o Flatten(Tail(bs))

Batches(as) == [i \in 1..Len(as) |-> as[i].batch]
Front(q) == SubSeq(q, 1, Len(q) - 1)
AnyFailed == \E i \in 1..Len(attempts) : ~attempts[i].ok
AnyOk == \E i \in 1..Len(attempts) : attempts[i].ok

\* The last five records of the log are the completion summary, with these totals.
SummaryReports(rows, nulls) ==
    /\ Len(log_file) >= 5
    /\ log_file[Len(log_file) - 4].ev = "concluido"
    /\ log_file[Len(log_file) - 2] = Entry("total_linhas", 0, rows, 0)
    /\ log_file[Len(log_file) - 1] = Entry("total_nulos", 0, 0, nulls)

\* C1: after process() completes, the output file holds exactly one header
\* line and it comes before every data line (the claim as stated).
C1_OneHeaderFirst ==
    pc = "done" => /\ HeaderCount(output) = 1
                   /\ output[1].kind = "header"

\* C2: total_rows and total_nulls never decrease during a run, always equal
\* the sums of the rows and nulls of the batches processed successfully so
\* far, and the completion summary reports exactly those sums.
C2_TotalsAreSums ==
    /\ [](/\ total_rows = OkRows(attempts)
          /\ total_nulls = OkNulls(attempts)
          /\ (pc = "done" => SummaryReports(OkRows(attempts), OkNulls(attempts))))
    /\ [][runs' = runs => /\ total_rows' >= total_rows
                          /\ total_nulls' >= total_nulls]_vars

C2_Witness ==
    /\ pc = "done"
    /\ AnyFailed
    /\ total_rows > 0
    /\ total_nulls > 0
    /\ \E i \in 1..Len(attempts) : ~attempts[i].ok /\ Len(attempts[i].batch) > 0

\* C3: when the configured function raises on every batch, the run completes,
\* the log has one error per batch, total_rows is 0 and the output file holds
\* only the header line (the claim as stated).
C3_AlwaysFailHeaderOnly ==
    (pc = "done" /\ processing_funcs = <<"raise">>) =>
        /\ LogCount("erro") = Len(yielded)
        /\ total_rows = 0
        /\ output = <<HEADER>>

Readable == input_exists /\ ~Malformed(input)

\* C5: a failure in the loop body never halts the run: the body always hands
\* control back to the loop, every batch the reader yielded is attempted
\* exactly once and in reader order, and a run over a readable input reaches
\* DONE with the completion summary logged.
C5_BodyFailureNeverHalts ==
    /\ [](pc \in {"loop", "done", "raised"} => Batches(attempts) = yielded)
    /\ [](pc = "chunk" => Batches(attempts) = Front(yielded))
    /\ [][pc = "chunk" => pc' = "loop"]_vars
    /\ ((pc = "loop" /\ Readable)
          ~> (pc = "done" /\ SummaryReports(total_rows, total_nulls)))

C5_Witness ==
    /\ pc = "done"
    /\ Len(attempts) >= 2
    /\ ~attempts[1].ok
    /\ attempts[Len(attempts)].ok

\* C6: a batch whose transform or write fails leaves the output file and the
\* totals as they were before it was attempted (the claim as stated).
C6_FailedBatchLeavesNoTrace ==
    [][(pc = "chunk" /\ pc' # "chunk" /\ ~attempts'[Len(attempts')].ok) =>
           /\ output' = output
           /\ total_rows' = total_rows
           /\ total_nulls' = total_nulls]_vars

\* C7 as stated: once the first batch has been yielded, nothing propagates out
\* of process().
C7_OnlySetupRaises ==
    pc = "raised" => yielded = <<>>

\* C7 as amended: process() raises when the output cannot be opened or when the
\* reader raises, on opening the input or on parsing any batch, the first or a
\* later one; an exception raised in the loop body, while a batch is
\* transformed, written or counted, never leaves process().
C7_OnlyOpenOrReaderRaises ==
    [][pc' = "raised" =>
         \/ pc = "idle" /\ ~output_writable
         \/ pc = "loop" /\ ~input_exists
         \/ pc = "loop" /\ Malformed(NextBatch(input, reader.pos, chunk_size))]_vars

C7_Witness ==
    /\ pc = "raised"
    /\ Len(yielded) >= 1
    /\ AnyFailed

\* C8: after process() completes, the data lines of the output are exactly the
\* transformed rows of the successfully processed batches, in reader order
\* (the claim as stated).
C8_OutputIsOkRows ==
    pc = "done" => DataLines(output) = OkLines(attempts)

\* C9 as stated: R data rows and chunk_size C give ceil(R / C) batches, all of
\* C rows but the last, which has R mod C rows (C when that is 0), and the
\* batches concatenated are the file's rows.
C9_CeilBatches ==
    pc = "done" =>
        LET R == Len(input)
            C == chunk_size
            N == Len(yielded)
        IN  /\ N = Ceil(R, C)
            /\ \A i \in 1..(N - 1) : Len(yielded[i]) = C
            /\ N >= 1 => Len(yielded[N]) = (IF R % C = 0 THEN C ELSE R % C)
            /\ Flatten(yielded) = input

\* C9 as amended: for R >= 1 the claim as stated; for R = 0 the reader yields
\* one batch, which has no rows.
C9_CeilBatchesOrOneEmpty ==
    pc = "done" =>
        LET R == Len(input)
            C == chunk_size
            N == Len(yielded)
        IN  /\ R >= 1 => /\ N = Ceil(R, C)
                         /\ \A i \in 1..(N - 1) : Len(yielded[i]) = C
                         /\ Len(yielded[N]) = (IF R % C = 0 THEN C ELSE R % C)
            /\ R = 0 => yielded = << <<>> >>
            /\ Flatten(yielded) = input

C9_Witness ==
    /\ pc = "done"
    /\ Len(input) = 3
    /\ chunk_size = 2
    /\ Len(yielded) = 2
    /\ Len(yielded[2]) = 1


\* C10: a second run over the same input with the same configuration and the
\* same deterministic functions ends with the output file the first run
\* produced: the second run truncates the file and leaves nothing of the first.
C10_SecondRunSameOutput ==
    (pc = "done" /\ prev.pc = "done") => output = prev.output

C10_Witness ==
    /\ pc = "done"
    /\ prev.pc = "done"
    /\ runs = 2
    /\ AnyFailed
    /\ Len(output) >= 3
    /\ output = prev.output


\* The configured functions as the caller listed them: none, one, or a list.
Configured ==
    CASE processing_funcs_arg.kind = "none" -> <<>>
      [] processing_funcs_arg.kind = "callable" -> <<processing_funcs_arg.f>>
      [] OTHER -> processing_funcs_arg.fs

\* The batch after the first k of the functions fs, each fed the output of the
\* one before it.
RECURSIVE Staged(_, _, _)
Staged(fs, b, k) ==
    IF k = 0 THEN [ok |-> TRUE, rows |-> b]
    ELSE LET r == Staged(fs, b, k - 1)
         IN  IF r.ok THEN ApplyFunc(fs[k], r.rows) ELSE r

\* C11: apply_processing_funcs gives the batch the configured functions give
\* when applied in their configured order, each to the output of the one
\* before; with no function configured it gives the batch unchanged; a single
\* callable behaves as the list holding it.
C11_FuncsAppliedInOrder ==
    pc = "chunk" =>
        /\ Transformed = Staged(Configured, chunk, Len(Configured))
        /\ (Configured = <<>> => Transformed = [ok |-> TRUE, rows |-> chunk])
        /\ (processing_funcs_arg.kind = "callable" =>
                Transformed = ApplyFunc(processing_funcs_arg.f, chunk))

C11_Witness ==
    /\ pc = "chunk"
    /\ processing_funcs = <<"dropna", "upper">>
    /\ HasNull(chunk)
    /\ Len(chunk) = 2
    /\ Transformed.ok
    /\ Len(Transformed.rows) = 1
    /\ Transformed.rows[1].v = "X"


OkCount == Cardinality({i \in 1..Len(attempts) : attempts[i].ok})
FailedCount == Cardinality({i \in 1..Len(attempts) : ~attempts[i].ok})

\* C12: the log file holds only the records of the most recent run, whatever
\* processor objects were built and process() calls made before, also a second
\* call on the same object (the claim as stated).
C12_LogHoldsOnlyLastRun ==
    log_file = <<>> \/ log_file = emitted

\* C13: for a run that starts on an empty log file, the log ends with exactly
\* one "processado" record per successful batch, one "erro" record per failed
\* batch and one completion summary, however many processor objects were built
\* for the input file before the run (the claim as stated; the log is looked
\* at before a later object truncates it).
C13_OneRecordPerBatch ==
    (pc = "done" /\ prev.log = 0 /\ log_file # <<>>) =>
        /\ LogCount("processado") = OkCount
        /\ LogCount("erro") = FailedCount
        /\ LogCount("concluido") = 1


\* C14: while the output is open, header_written is true exactly when the
\* output file holds a header line; once true it stays true until the run
\* ends; and a step that writes to the output writes the header line if and
\* only if the file holds none yet (the claim as stated).
C14_FlagMeansHeaderInFile ==
    /\ [](f_out_open => (header_written <=> HeaderCount(output) >= 1))
    /\ [][(f_out_open /\ f_out_open' /\ header_written) => header_written']_vars
    /\ [][(f_out_open /\ f_out_open' /\ output' # output) =>
            ((HeaderCount(output') > HeaderCount(output)) <=> HeaderCount(output) = 0)]_vars


\* The record of the completion summary that reports the count of chunks, and
\* the one that reports the count of rows.
ReportedChunks == emitted[Len(emitted) - 3]
ReportedRows == emitted[Len(emitted) - 2]

\* C15: the count of chunks in the completion summary is the number of batches
\* processed without error, and the counter moves only in a step that ends a
\* batch without error (the claim as stated).
C15_CountsOnlyOkBatches ==
    /\ [](pc = "done" => ReportedChunks = Entry("total_chunks", OkCount, 0, 0))
    /\ [][(pc = "chunk" /\ chunk_number' # chunk_number) =>
            attempts'[Len(attempts')].ok]_vars

\* What every attempt so far has put into the output stream, in order.
WrittenSoFar == Flatten([i \in 1..Len(attempts) |-> attempts[i].written])

\* C16: batches are handled one at a time.  At most one yielded batch is not
\* yet settled, and exactly while the loop body runs; the reader is asked for
\* a batch only when every earlier one is settled (written or failed); the
\* output file always is what the settled batches wrote, each successful one
\* with all its rows, and so it is after the generator raised midway.
C16_OneBatchAtATime ==
    /\ [](Len(yielded) - Len(attempts) = (IF pc = "chunk" THEN 1 ELSE 0))
    /\ [][yielded' # yielded /\ yielded' # <<>> =>
            /\ Len(attempts) = Len(yielded)
            /\ Len(yielded') = Len(yielded) + 1]_vars
    /\ []((output_writable /\ pc # "idle") =>
            /\ output = WrittenSoFar
            /\ \A i \in 1..Len(attempts) : attempts[i].ok =>
                 \A j \in 1..Len(attempts[i].out) :
                   \E k \in 1..Len(attempts[i].written) :
                     attempts[i].written[k] = Line(attempts[i].out[j]))

\* A run that the reader aborted after a batch had been written.
C16_Witness ==
    /\ pc = "raised"
    /\ output_writable
    /\ AnyOk
    /\ DataLines(output) # <<>>

\* C17: the input file is missing and the output can be opened: process()
\* raises from its first request for a batch; no batch was yielded or
\* processed, the log holds the start record and nothing else, the output
\* stream is closed and the output file is empty.
C17_MissingInputAborts ==
    /\ [][(pc = "loop" /\ ~input_exists) => pc' = "raised"]_vars
    /\ []((~input_exists /\ pc = "raised" /\ output_writable) =>
            /\ yielded = <<>>
            /\ attempts = <<>>
            /\ chunk_number = 0
            /\ LogCount("concluido") = 0
            /\ log_file = <<Entry("iniciando", 0, 0, 0)>>
            /\ ~f_out_open
            /\ output = <<>>)

\* The run found an older output file, and the input missing.
C17_Witness ==
    /\ ~input_exists
    /\ pc = "raised"
    /\ output_writable
    /\ prev.output = OldOutput
    /\ output = <<>>

\* C18: after process() completes, the count of rows in the completion summary
\* is the number of data rows in the output file (the claim as stated).
C18_ReportedRowsAreFileRows ==
    pc = "done" => ReportedRows = Entry("total_linhas", 0, Len(DataLines(output)), 0)

====
